---------------------------- MODULE Spec2Model ----------------------------
(***************************************************************************)
(* ResumeGen: JSON resume / cover letter to Word document.                 *)
(*                                                                         *)
(* A Python str is a sequence with one element per character, so that the  *)
(* regular expressions, str.replace, str.split and str.strip of the source *)
(* are computed character by character.  A character below U+0080 is the   *)
(* one-character string holding it; a character from U+0080 on is the      *)
(* string holding its Python escape, "\\xhh" below U+0100 and "\\uhhhh"    *)
(* above (U+2003 is "\\u2003", e-acute is "\\xe9"), which keeps the module *)
(* in ASCII and its meaning independent of the encoding it is read in.     *)
(* Offsets are Python's (0-based, end exclusive): Slice(t, a, b) is t[a:b].*)
(***************************************************************************)
EXTENDS Naturals, Sequences, FiniteSets

VARIABLES
    text,       \* the text handed to process_text_with_hyperlinks / remove_hyperlink
    runs,       \* the runs of the paragraph handed to process_text_with_hyperlinks
    stripped,   \* the return value of remove_hyperlink, empty before the call
    called,     \* the functions that have been applied to text
    payload,    \* the resume JSON under test
    doc,        \* self.doc of the ResumeGen instance: the nodes added so far
    calls,      \* the generate_resume calls made on the instance, oldest first
    template,   \* the cover letter template text
    header,     \* the "header" object of the cover letter JSON
    cover       \* the outcome of the last cover_letter.main run

textVars   == <<text, runs, stripped, called>>
resumeVars == <<payload, doc, calls>>
coverVars  == <<template, header, cover>>
vars       == <<text, runs, stripped, called, payload, doc, calls, template, header, cover>>

-----------------------------------------------------------------------------
(* Python string primitives *)

At(t, i) == t[i + 1]

Slice(t, a, b) == SubSeq(t, a + 1, b)

\* t[i:i+len(lit)] == lit
HasAt(t, i, lit) ==
    /\ i + Len(lit) <= Len(t)
    /\ \A k \in 1..Len(lit) : t[i + k] = lit[k]

Max(S) == CHOOSE x \in S : \A y \in S : y <= x

Min(S) == CHOOSE x \in S : \A y \in S : x <= y

\* \s of the re module on str, and the characters str.strip() removes: the
\* 29 characters str.isspace() holds for.  The first row holds the ASCII ones
\* (U+0009 to U+000D, U+001C to U+001F and the space), the other rows U+0085,
\* U+00A0, U+1680, U+2000 to U+200A, U+2028, U+2029, U+202F, U+205F, U+3000.
Whitespace ==
    {" ", "\t", "\n", "\r", "\f", "", "", "", "", "",
     "\\x85", "\\xa0", "\\u1680", "\\u2000", "\\u2001", "\\u2002", "\\u2003",
     "\\u2004", "\\u2005", "\\u2006", "\\u2007", "\\u2008", "\\u2009", "\\u200a",
     "\\u2028", "\\u2029", "\\u202f", "\\u205f", "\\u3000"}

Quotes == {"'", "\""}

RECURSIVE Flatten(_)
Flatten(ss) == IF ss = <<>> THEN <<>> ELSE Head(ss) \o Flatten(Tail(ss))

-----------------------------------------------------------------------------
(* The two regular expressions of resumegen.py *)

LitOpen  == <<"<", "a">>
LitHref  == <<"h", "r", "e", "f", "=">>
LitClose == <<"<", "/", "a", ">">>

NoMatch == [start |-> 0, end |-> 0, url |-> <<>>, label |-> <<>>, found |-> FALSE]

\* \s+ after "<a" at i: the offsets where the whitespace can end
WsEnds(t, i) ==
    {p \in (i + 3)..Len(t) : \A k \in (i + 2)..(p - 1) : At(t, k) \in Whitespace}

\* [^>]* from p, then ">": the offset of that ">"
TagEnds(t, p) ==
    {s \in p..(Len(t) - 1) :
        /\ At(t, s) = ">"
        /\ \A k \in p..(s - 1) : At(t, k) # ">"}

\* (.*?) from s, then "</a>": the offsets where the label can end
LabelEnds(t, s) ==
    {e \in s..Len(t) :
        /\ HasAt(t, e, LitClose)
        /\ \A k \in s..(e - 1) : At(t, k) # "\n"}

\* the tag's ">" and the label after the closing quote at r
HrefTailOk(t, r) == \E s \in TagEnds(t, r + 1) : LabelEnds(t, s + 1) # {}

\* (.*?) from u, then ['"]: the offsets of a closing quote the rest matches after
UrlEnds(t, u) ==
    {r \in u..(Len(t) - 1) :
        /\ At(t, r) \in Quotes
        /\ \A k \in u..(r - 1) : At(t, k) # "\n"
        /\ HrefTailOk(t, r)}

\* [^>]* from p, then href=['"]: the offsets of an "href=" the rest matches after
HrefStarts(t, p) ==
    {q \in p..Len(t) :
        /\ HasAt(t, q, LitHref)
        /\ q + 5 < Len(t)
        /\ At(t, q + 5) \in Quotes
        /\ \A k \in p..(q - 1) : At(t, k) # ">"
        /\ UrlEnds(t, q + 6) # {}}

HrefWsEnds(t, i) == {p \in WsEnds(t, i) : HrefStarts(t, p) # {}}

\* r'<a\s+[^>]*href=[\'"](.*?)[\'"][^>]*>(.*?)</a>' matched at offset i:
\* greedy quantifiers take the longest alternative the rest matches after,
\* lazy ones the shortest.
HrefMatchAt(t, i) ==
    IF ~HasAt(t, i, LitOpen) \/ HrefWsEnds(t, i) = {} THEN NoMatch
    ELSE LET p == Max(HrefWsEnds(t, i))
             q == Max(HrefStarts(t, p))
             r == Min(UrlEnds(t, q + 6))
             s == Max({x \in TagEnds(t, r + 1) : LabelEnds(t, x + 1) # {}})
             e == Min(LabelEnds(t, s + 1))
         IN  [start |-> i, end |-> e + 4, url |-> Slice(t, q + 6, r),
              label |-> Slice(t, s + 1, e), found |-> TRUE]

TagWsEnds(t, i) ==
    {p \in WsEnds(t, i) : \E s \in TagEnds(t, p) : LabelEnds(t, s + 1) # {}}

\* r'<a\s+[^>]*>(.*?)</a>' matched at offset i
TagMatchAt(t, i) ==
    IF ~HasAt(t, i, LitOpen) \/ TagWsEnds(t, i) = {} THEN NoMatch
    ELSE LET p == Max(TagWsEnds(t, i))
             s == Max({x \in TagEnds(t, p) : LabelEnds(t, x + 1) # {}})
             e == Min(LabelEnds(t, s + 1))
         IN  [start |-> i, end |-> e + 4, url |-> <<>>,
              label |-> Slice(t, s + 1, e), found |-> TRUE]

\* re.finditer(pattern, text): the leftmost match at or after pos, then on from its end
RECURSIVE HrefFindIter(_, _)
HrefFindIter(t, pos) ==
    LET starts == {i \in pos..Len(t) : HrefMatchAt(t, i).found}
    IN  IF starts = {} THEN <<>>
        ELSE LET m == HrefMatchAt(t, Min(starts))
             IN  <<m>> \o HrefFindIter(t, m.end)

RECURSIVE TagFindIter(_, _)
TagFindIter(t, pos) ==
    LET starts == {i \in pos..Len(t) : TagMatchAt(t, i).found}
    IN  IF starts = {} THEN <<>>
        ELSE LET m == TagMatchAt(t, Min(starts))
             IN  <<m>> \o TagFindIter(t, m.end)

-----------------------------------------------------------------------------
(* ResumeGen.process_text_with_hyperlinks and ResumeGen.remove_hyperlink *)

PlainRun(s) == [kind |-> "plain", text |-> s, url |-> <<>>]

\* add_hyperlink(paragraph, text, url): one run holding the hyperlink
HyperlinkRun(label, url) == [kind |-> "hyperlink", text |-> label, url |-> url]

\* paragraph.add_run(text[last_pos:start]) when start > last_pos
RunBefore(t, last_pos, start) ==
    IF start > last_pos THEN <<PlainRun(Slice(t, last_pos, start))>> ELSE <<>>

\* RunAfter without the text after the last anchor
RunAfterDropped(t, last_pos) == <<>>

\* RunAfter with last_pos <= len(text) as its test
RunAfterAlways(t, last_pos) == <<PlainRun(Slice(t, last_pos, Len(t)))>>

\* paragraph.add_run(text[last_pos:]) when last_pos < len(text)
RunAfter(t, last_pos) ==
    IF last_pos < Len(t) THEN <<PlainRun(Slice(t, last_pos, Len(t)))>> ELSE <<>>

\* the for loop over the matches, from match k on
RECURSIVE RunsLoop(_, _, _, _)
RunsLoop(t, ms, k, last_pos) ==
    IF k > Len(ms) THEN RunAfter(t, last_pos)
    ELSE RunBefore(t, last_pos, ms[k].start)
            \o <<HyperlinkRun(ms[k].label, ms[k].url)>>
            \o RunsLoop(t, ms, k + 1, ms[k].end)

\* the runs process_text_with_hyperlinks adds to the paragraph
process_text_with_hyperlinks(t) == RunsLoop(t, HrefFindIter(t, 0), 1, 0)

\* re.sub(pattern, r'\1', text): every match replaced by its group 1
RECURSIVE SubLoop(_, _, _, _)
SubLoop(t, ms, k, last_pos) ==
    IF k > Len(ms) THEN Slice(t, last_pos, Len(t))
    ELSE Slice(t, last_pos, ms[k].start) \o ms[k].label
            \o SubLoop(t, ms, k + 1, ms[k].end)

remove_hyperlink(t) == SubLoop(t, TagFindIter(t, 0), 1, 0)

-----------------------------------------------------------------------------
(* The texts the two functions are applied to: up to MaxFrags pieces, each a *)
(* piece of anchor markup or of plain text, joined.                          *)

MaxFrags == 3

FragPlainA   == <<"A", " ">>
FragPlainB   == <<" ", "B">>
FragAnchor   == <<"<", "a", " ", "h", "r", "e", "f", "=", "'", "u", "'", ">",
                  "L", "<", "/", "a", ">">>
FragOpenTag  == <<"<", "a", " ", "x", ">">>
FragOpenHref == <<"<", "a", " ", "h", "r", "e", "f", "=", "\"", "v">>
FragOpenOnly == <<"<", "a", " ", "h", "r", "e", "f", "=", "\"", "w", "\"", ">">>
\* an anchor with a vertical tab (U+000B) and an em space (U+2003) for its
\* whitespace
FragAnchorVt == <<"<", "a", "", "\\u2003", "h", "r", "e", "f", "=", "'", "u", "'", ">",
                  "L", "<", "/", "a", ">">>
FragQuoteEnd == <<"'", ">">>
FragNewline  == <<"\n">>

Fragments ==
    {FragPlainA, FragPlainB, FragAnchor, FragOpenTag, FragOpenHref,
     FragOpenOnly, FragAnchorVt, FragQuoteEnd, LitClose, FragNewline}

Texts == {Flatten(fs) : fs \in UNION {[1..n -> Fragments] : n \in 0..MaxFrags}}

\* process_text_with_hyperlinks(paragraph, text) on a paragraph without runs
ProcessTextWithHyperlinks ==
    /\ "process_text_with_hyperlinks" \notin called
    /\ runs' = runs \o process_text_with_hyperlinks(text)
    /\ called' = called \cup {"process_text_with_hyperlinks"}
    /\ UNCHANGED <<text, stripped>>

\* remove_hyperlink(text)
RemoveHyperlink ==
    /\ "remove_hyperlink" \notin called
    /\ stripped' = remove_hyperlink(text)
    /\ called' = called \cup {"remove_hyperlink"}
    /\ UNCHANGED <<text, runs>>


TextNext ==
    \/ ProcessTextWithHyperlinks /\ UNCHANGED <<resumeVars, coverVars>>
    \/ RemoveHyperlink /\ UNCHANGED <<resumeVars, coverVars>>

TextInit ==
    /\ text \in Texts /\ runs = <<>> /\ stripped = <<>> /\ called = {}
    /\ payload = <<>> /\ doc = <<>> /\ calls = <<>>
    /\ template = <<>> /\ header = <<>> /\ cover = <<>>

SpecText == TextInit /\ [][TextNext]_vars

-----------------------------------------------------------------------------
(* ResumeGen.generate_resume *)

\* self.doc.add_heading(text, level)
Heading(level, t) == [kind |-> "heading", level |-> level, text |-> t, runs |-> <<>>]

\* self.doc.add_paragraph(style="List Bullet"), then its runs
Bullet(rs) == [kind |-> "List Bullet", level |-> 0, text |-> <<>>, runs |-> rs]

\* what a part of the try block has done: the nodes added, and the exception
\* that ended it ("" when none)
Done(nodes) == [nodes |-> nodes, raised |-> ""]

Raised(nodes, key) == [nodes |-> nodes, raised |-> key]

\* the second part runs only when the first raised nothing
Then(a, b) == IF a.raised # "" THEN a ELSE [nodes |-> a.nodes \o b.nodes, raised |-> b.raised]

HasKey(d, key) == key \in DOMAIN d

\* InsertDesc putting x before the elements of equal id too
InsertDescUnstable(x, s) ==
    LET before == {k \in 1..Len(s) : \A j \in 1..k : s[j].id > x.id}
        n == IF before = {} THEN 0 ELSE Max(before)
    IN  SubSeq(s, 1, n) \o <<x>> \o SubSeq(s, n + 1, Len(s))

\* x put into s, which is sorted by descending id, after the elements of id >= x.id
InsertDesc(x, s) ==
    LET before == {k \in 1..Len(s) : \A j \in 1..k : s[j].id >= x.id}
        n == IF before = {} THEN 0 ELSE Max(before)
    IN  SubSeq(s, 1, n) \o <<x>> \o SubSeq(s, n + 1, Len(s))

\* sorted(xs, key=lambda x: x["id"], reverse=True): stable, elements taken left to right
RECURSIVE SortedLoop(_, _, _)
SortedLoop(xs, k, acc) ==
    IF k > Len(xs) THEN acc ELSE SortedLoop(xs, k + 1, InsertDesc(xs[k], acc))

SortedByIdDesc(xs) == SortedLoop(xs, 1, <<>>)

\* EntryHeading without remove_hyperlink
EntryHeadingRaw(item) ==
    IF item.date # <<>>
    THEN item.position \o <<" ", "-", " ", "(">> \o item.date \o <<")">>
    ELSE item.position

\* heading = remove_hyperlink(position), then f"{heading} - ({date})" for a date
EntryHeading(item) ==
    LET heading == remove_hyperlink(item.position)
    IN  IF item.date # <<>>
        THEN heading \o <<" ", "-", " ", "(">> \o item.date \o <<")">>
        ELSE heading

\* for bullet_item in item["items"]: a List Bullet paragraph with the item's runs
BulletNodes(bullets) ==
    [k \in 1..Len(bullets) |-> Bullet(process_text_with_hyperlinks(bullets[k]))]

\* the body of "for item in items"
ItemNodes(item) ==
    Then(IF item.position # <<>> THEN Done(<<Heading(2, EntryHeading(item))>>)
         ELSE Done(<<>>),
         IF HasKey(item, "items") THEN Done(BulletNodes(item.items))
         ELSE Raised(<<>>, "items"))

RECURSIVE ItemsLoop(_, _)
ItemsLoop(items, k) ==
    IF k > Len(items) THEN Done(<<>>)
    ELSE Then(ItemNodes(items[k]), ItemsLoop(items, k + 1))

\* the body of "for datum in contents"
DatumNodes(datum) ==
    Then(Done(<<Heading(1, datum.title)>>),
         ItemsLoop(SortedByIdDesc(datum.content), 1))

RECURSIVE ContentsLoop(_, _)
ContentsLoop(contents, k) ==
    IF k > Len(contents) THEN Done(<<>>)
    ELSE Then(DatumNodes(contents[k]), ContentsLoop(contents, k + 1))

\* the try block of generate_resume up to doc.save: the nodes it adds to
\* self.doc and the KeyError that ends it
BuildNodes(resume_data) ==
    Then(IF HasKey(resume_data.header, "name")
         THEN Done(<<Heading(0, resume_data.header.name)>>)
         ELSE Raised(<<>>, "name"),
    Then(IF HasKey(resume_data.header, "title")
         THEN Done(<<Heading(3, resume_data.header.title)>>)
         ELSE Raised(<<>>, "title"),
         ContentsLoop(SortedByIdDesc(resume_data.contents), 1)))

\* Saves with doc.save in a finally clause
SavesAlways(built, document) == <<document>>

\* the documents self.doc.save(output_file) writes during the call
Saves(built, document) == IF built.raised = "" THEN <<document>> ELSE <<>>

\* logger.info on success, logger.error in the except clause
LogOf(built, output_file) ==
    IF built.raised = ""
    THEN <<[level |-> "INFO", msg |-> "Resume saved to", arg |-> output_file]>>
    ELSE <<[level |-> "ERROR", msg |-> "Failed to generate resume:", arg |-> built.raised]>>

OutputFile == "resume.docx"

\* generator.generate_resume(resume_data, output_file)
GenerateResume(resume_data) ==
    LET built == BuildNodes(resume_data)
    IN  /\ doc' = doc \o built.nodes
        /\ calls' = Append(calls,
                [data   |-> resume_data,
                 added  |-> built.nodes,
                 saved  |-> Saves(built, doc'),
                 log    |-> LogOf(built, OutputFile),
                 raised |-> built.raised])
        /\ UNCHANGED payload

\* generator = ResumeGen(config): self.doc = docx.Document()
NewResumeGen ==
    /\ calls # <<>>
    /\ doc' = <<>>
    /\ calls' = <<>>
    /\ UNCHANGED payload

-----------------------------------------------------------------------------
(* The resume payloads: sections of every id list, entries of every id list, *)
(* both at once, and one entry of every shape.  Titles and positions carry   *)
(* the place in the input, so that the rendered order shows where each came  *)
(* from.                                                                     *)

MaxLen   == 3
MaxId    == 3
MaxItems == 2
MaxCalls == 2

Digit(k) == <<"1", "2", "3", "4", "5", "6", "7", "8", "9">>[k]

IdLists == UNION {[1..n -> 1..MaxId] : n \in 0..MaxLen}

ValidHeader == [name |-> <<"N">>, title |-> <<"T">>]

Entry(id, position, date, items) ==
    [id |-> id, position |-> position, date |-> date, items |-> items]

Section(id, title, content) == [id |-> id, title |-> title, content |-> content]

Payload(contents) == [header |-> ValidHeader, contents |-> contents]

\* one section per id, each holding one entry
SectionsPayload(ids) ==
    Payload([k \in 1..Len(ids) |->
        Section(ids[k], <<"S", Digit(k)>>,
                <<Entry(1, <<"P", Digit(k)>>, <<>>, << <<"i", Digit(k)>> >>)>>)])

\* one section holding one entry per id, every second one dated
EntriesPayload(ids) ==
    Payload(<<Section(1, <<"S", "1">>,
        [k \in 1..Len(ids) |->
            Entry(ids[k], <<"P", Digit(k)>>,
                  IF k % 2 = 0 THEN <<"D">> ELSE <<>>,
                  << <<"i", Digit(k)>> >>)])>>)

\* one section per id, each holding one entry per id of the same list
GridPayload(ids) ==
    Payload([k \in 1..Len(ids) |->
        Section(ids[k], <<"S", Digit(k)>>,
            [j \in 1..Len(ids) |->
                Entry(ids[j], <<"P", Digit(k), Digit(j)>>,
                      IF (k + j) % 2 = 0 THEN <<"D">> ELSE <<>>,
                      << <<"i", Digit(k), Digit(j)>> >>)])])

Positions == {<<>>, <<"P">>, FragPlainA \o FragAnchor, FragOpenTag \o <<"Q">> \o LitClose}

Dates == {<<>>, <<"2", "1">>}

ItemTexts == {<<"i">>, FragPlainA \o FragAnchor \o FragPlainB}

ItemLists == UNION {[1..n -> ItemTexts] : n \in 0..MaxItems}

\* one section holding one entry
EntryPayload(position, date, items) ==
    Payload(<<Section(1, <<"S", "1">>, <<Entry(1, position, date, items)>>)>>)

Payloads ==
    {SectionsPayload(ids) : ids \in IdLists}
        \cup {EntriesPayload(ids) : ids \in IdLists}
        \cup {GridPayload(ids) : ids \in IdLists}
        \cup {EntryPayload(p, d, is) : p \in Positions, d \in Dates, is \in ItemLists}

\* the payload with a key missing: header.name, header.title, or the "items"
\* of the last entry of the last section
WithoutName(d) == [d EXCEPT !.header = [title |-> d.header.title]]

WithoutTitle(d) == [d EXCEPT !.header = [name |-> d.header.name]]

HasEntry(d) == d.contents # <<>> /\ d.contents[Len(d.contents)].content # <<>>

WithoutItems(d) ==
    LET s == Len(d.contents)
        n == Len(d.contents[s].content)
        e == d.contents[s].content[n]
    IN  [d EXCEPT !.contents[s].content[n] =
            [id |-> e.id, position |-> e.position, date |-> e.date]]

Inputs(d) ==
    {d, WithoutName(d), WithoutTitle(d)}
        \cup (IF HasEntry(d) THEN {WithoutItems(d)} ELSE {})

ResumeInit ==
    /\ payload \in Payloads /\ doc = <<>> /\ calls = <<>>
    /\ text = <<>> /\ runs = <<>> /\ stripped = <<>> /\ called = {}
    /\ template = <<>> /\ header = <<>> /\ cover = <<>>

ResumeNext ==
    \/ /\ Len(calls) < MaxCalls
       /\ \E d \in Inputs(payload) : GenerateResume(d)
       /\ UNCHANGED <<textVars, coverVars>>
    \/ NewResumeGen /\ UNCHANGED <<textVars, coverVars>>

SpecResume == ResumeInit /\ [][ResumeNext]_vars

-----------------------------------------------------------------------------
(* cover_letter.py: Python string methods *)

\* haystack.replace(old, new) from offset i on: the occurrences of old, left
\* to right and non-overlapping, each replaced by new
RECURSIVE ReplaceFrom(_, _, _, _)
ReplaceFrom(t, i, old, new) ==
    LET hits == {k \in i..Len(t) : HasAt(t, k, old)}
    IN  IF hits = {} THEN Slice(t, i, Len(t))
        ELSE Slice(t, i, Min(hits)) \o new
                \o ReplaceFrom(t, Min(hits) + Len(old), old, new)

Replace(t, old, new) == ReplaceFrom(t, 0, old, new)

\* t.split('\n') from offset i on
RECURSIVE SplitFrom(_, _)
SplitFrom(t, i) ==
    LET breaks == {k \in i..(Len(t) - 1) : At(t, k) = "\n"}
    IN  IF breaks = {} THEN <<Slice(t, i, Len(t))>>
        ELSE <<Slice(t, i, Min(breaks))>> \o SplitFrom(t, Min(breaks) + 1)

Split(t) == SplitFrom(t, 0)

\* line.strip()
Strip(line) ==
    LET keep == {k \in 1..Len(line) : line[k] \notin Whitespace}
    IN  IF keep = {} THEN <<>> ELSE SubSeq(line, Min(keep), Max(keep))

\* lines.index(line): the first offset holding line, -1 standing for ValueError
NotInList == 0 - 1

Index(lines, line) ==
    LET hits == {k \in 1..Len(lines) : lines[k] = line}
    IN  IF hits = {} THEN NotInList ELSE Min(hits) - 1

\* lines[i] with Python's negative offsets
Item(lines, i) == IF i < 0 THEN lines[Len(lines) + i + 1] ELSE lines[i + 1]

-----------------------------------------------------------------------------
(* cover_letter.create_cover_letter *)

DearHiringManager ==
    <<"D", "e", "a", "r", " ", "H", "i", "r", "i", "n", "g", " ",
      "M", "a", "n", "a", "g", "e", "r", ",">>

Sincerely == <<"S", "i", "n", "c", "e", "r", "e", "l", "y", ",">>

\* the keys of data, in the order main builds the dict
DataKeys == <<"name", "address", "phone", "email", "date", "position", "company">>

KeyChars(key) ==
    CASE key = "name"     -> <<"n", "a", "m", "e">>
      [] key = "address"  -> <<"a", "d", "d", "r", "e", "s", "s">>
      [] key = "phone"    -> <<"p", "h", "o", "n", "e">>
      [] key = "email"    -> <<"e", "m", "a", "i", "l">>
      [] key = "date"     -> <<"d", "a", "t", "e">>
      [] key = "position" -> <<"p", "o", "s", "i", "t", "i", "o", "n">>
      [] key = "company"  -> <<"c", "o", "m", "p", "a", "n", "y">>

\* for key, value in data.items(): letter_content.replace(f"${key}", value)
RECURSIVE SubstituteFrom(_, _, _)
SubstituteFrom(letter_content, data, k) ==
    IF k > Len(DataKeys) THEN letter_content
    ELSE SubstituteFrom(
            Replace(letter_content, <<"$">> \o KeyChars(DataKeys[k]), data[DataKeys[k]]),
            data, k + 1)

Substitute(tpl, data) == SubstituteFrom(tpl, data, 1)

\* doc.add_paragraph(line) with style Normal; a spacing of 0 is one never set
Para(line, role, before, after) ==
    [text |-> line, style |-> "Normal", role |-> role,
     space_before |-> before, space_after |-> after]

\* f"{data['phone']} | {data['email']}"
PhoneEmail(data) == data.phone \o <<" ", "|", " ">> \o data.email

HeaderLines(data) == {data.name, data.address, PhoneEmail(data), data.date}

\* the if/elif chain on one stripped, non-empty line: the paragraph it adds,
\* or the ValueError of lines.index
Classify(lines, line, data) ==
    IF line = DearHiringManager
        THEN [para |-> <<Para(line, "salutation", 0, 0)>>, raised |-> ""]
    ELSE IF line = Sincerely
        THEN [para |-> <<Para(line, "closing", 12, 0)>>, raised |-> ""]
    ELSE IF line = data.name /\ Index(lines, line) = NotInList
        THEN [para |-> <<>>, raised |-> "ValueError"]
    ELSE IF line = data.name /\ Strip(Item(lines, Index(lines, line) - 1)) = Sincerely
        THEN [para |-> <<Para(line, "signatureName", 0, 0)>>, raised |-> ""]
    ELSE IF line \in HeaderLines(data)
        THEN [para |-> <<Para(line, "headerLine", 0, 6)>>, raised |-> ""]
    ELSE [para |-> <<Para(line, "body", 12, 12)>>, raised |-> ""]

\* for line in lines, from line k on: the paragraphs added and the exception
\* that ended the loop ("" when none)
RECURSIVE LinesLoop(_, _, _)
LinesLoop(lines, k, data) ==
    IF k > Len(lines) THEN [paragraphs |-> <<>>, raised |-> ""]
    ELSE LET line == Strip(lines[k])
         IN  IF line = <<>> THEN LinesLoop(lines, k + 1, data)
             ELSE LET c == Classify(lines, line, data)
                  IN  IF c.raised # "" THEN [paragraphs |-> <<>>, raised |-> c.raised]
                      ELSE LET rest == LinesLoop(lines, k + 1, data)
                           IN  [paragraphs |-> c.para \o rest.paragraphs,
                                raised |-> rest.raised]

CoverOutput == "cover_letter.docx"

\* create_cover_letter(data, template, output_file), as seen by main
create_cover_letter(data, tpl) ==
    LET built == LinesLoop(Split(Substitute(tpl, data)), 1, data)
    IN  [ran        |-> TRUE,
         created    |-> TRUE,
         paragraphs |-> built.paragraphs,
         saved      |-> IF built.raised = "" THEN <<built.paragraphs>> ELSE <<>>,
         raised     |-> built.raised,
         log        |-> IF built.raised = ""
                        THEN <<[level |-> "INFO", msg |-> "Cover letter saved to",
                                arg |-> CoverOutput]>>
                        ELSE <<[level |-> "ERROR", msg |-> "Failed to generate cover letter:",
                                arg |-> built.raised],
                               [level |-> "CRITICAL", msg |-> "Application failed:",
                                arg |-> built.raised]>>,
         exit       |-> IF built.raised = "" THEN 0 ELSE 1]

-----------------------------------------------------------------------------
(* cover_letter.main *)

\* RequiredFields in the order main builds data
RequiredFieldsDataOrder == <<"name", "address", "phone", "email">>

RequiredFields == <<"name", "phone", "email", "address">>

\* field not in header or not header[field]
MissingOrEmpty(h, field) == field \notin DOMAIN h \/ h[field] = <<>>

\* the first required field the validation loop raises ValueError for, "" when none
RECURSIVE FirstMissing(_, _)
FirstMissing(h, k) ==
    IF k > Len(RequiredFields) THEN ""
    ELSE IF MissingOrEmpty(h, RequiredFields[k]) THEN RequiredFields[k]
    ELSE FirstMissing(h, k + 1)

Today == <<"M", "a", "y", " ", "2", "4", ",", " ", "2", "0", "2", "5">>

ArgPosition == <<"S", "W", "E">>

ArgCompany == <<"A", "c", "m", "e">>

DataOf(h) ==
    [name |-> h.name, address |-> h.address, phone |-> h.phone, email |-> h.email,
     date |-> Today, position |-> ArgPosition, company |-> ArgCompany]

NotRun ==
    [ran |-> FALSE, created |-> FALSE, paragraphs |-> <<>>, saved |-> <<>>,
     raised |-> "", log |-> <<>>, exit |-> 0]

\* the try block of main: validation, then create_cover_letter; any exception
\* is logged as critical and ends the run with exit(1)
MainOutcome(h, tpl) ==
    IF FirstMissing(h, 1) # ""
    THEN [ran |-> TRUE, created |-> FALSE, paragraphs |-> <<>>, saved |-> <<>>,
          raised |-> "ValueError",
          log |-> <<[level |-> "CRITICAL",
                     msg |-> "Application failed: Missing or empty field",
                     arg |-> FirstMissing(h, 1)]>>,
          exit |-> 1]
    ELSE create_cover_letter(DataOf(h), tpl)

CoverMain ==
    /\ ~cover.ran
    /\ cover' = MainOutcome(header, template)
    /\ UNCHANGED <<template, header>>

-----------------------------------------------------------------------------
(* The cover letter inputs: templates of up to MaxLines lines, and headers   *)
(* with each required field present, empty or absent.                        *)

MaxLines == 3

LineName     == <<"$", "n", "a", "m", "e">>
LineNameWs   == <<" ", "$", "n", "a", "m", "e">>
\* "$name" between an em space (U+2003) and a vertical tab (U+000B)
LineNameVt   == <<"\\u2003", "$", "n", "a", "m", "e", "">>
LineAddress  == <<"$", "a", "d", "d", "r", "e", "s", "s">>
LineContact  == <<"$", "p", "h", "o", "n", "e", " ", "|", " ", "$", "e", "m", "a", "i", "l">>
LineBody     == <<"R", "e", ":", " ", "$", "p", "o", "s", "i", "t", "i", "o", "n", " ",
                  "a", "t", " ", "$", "c", "o", "m", "p", "a", "n", "y">>
LineBlank    == <<>>
\* a line holding a token that is no key of data
LineUnknown  == <<"$", "t", "i", "t", "l", "e">>

TemplateLines ==
    {DearHiringManager, Sincerely, LineName, LineNameWs, LineNameVt, LineAddress,
     LineContact, LineBody, LineBlank, LineUnknown}

\* "\n".join(ls)
RECURSIVE Join(_)
Join(ls) ==
    IF ls = <<>> THEN <<>>
    ELSE IF Len(ls) = 1 THEN ls[1]
    ELSE ls[1] \o <<"\n">> \o Join(Tail(ls))

Templates == {Join(ls) : ls \in UNION {[1..n -> TemplateLines] : n \in 0..MaxLines}}

\* "Dear Hiring Manager,\n\n$name\n\nSincerely,\n$name"
ExampleTemplate ==
    Join(<<DearHiringManager, LineBlank, LineName, LineBlank, Sincerely, LineName>>)

FieldValue(field) ==
    CASE field = "name"    -> <<"A", "n", "n">>
      [] field = "phone"   -> <<"5", "5", "5">>
      [] field = "email"   -> <<"a", "@", "x">>
      [] field = "address" -> <<"1", " ", "M", "a", "i", "n", " ", "S", "t">>

Fields == {"name", "phone", "email", "address"}

Headers ==
    {[f \in present |-> IF f \in empty THEN <<>> ELSE FieldValue(f)] :
        present \in SUBSET Fields, empty \in SUBSET Fields}

FullHeader == [f \in Fields |-> FieldValue(f)]

\* headers with a field whose value reads as a placeholder: a name "$company"
\* (its key is replaced before company), an address "$name" (replaced after name)
TokenHeaders ==
    {[FullHeader EXCEPT !.name = <<"$">> \o KeyChars("company")],
     [FullHeader EXCEPT !.address = <<"$">> \o KeyChars("name")]}

CoverInit ==
    /\ \/ header = FullHeader /\ template \in Templates \cup {ExampleTemplate}
       \/ header \in Headers /\ template = ExampleTemplate
       \/ header \in TokenHeaders /\ template \in Templates
    /\ cover = NotRun
    /\ text = <<>> /\ runs = <<>> /\ stripped = <<>> /\ called = {}
    /\ payload = <<>> /\ doc = <<>> /\ calls = <<>>

CoverNext == CoverMain /\ UNCHANGED <<textVars, resumeVars>>

SpecCover == CoverInit /\ [][CoverNext]_vars

-----------------------------------------------------------------------------
(* Claims about the text functions, under SpecText *)

Processed == "process_text_with_hyperlinks" \in called

Removed == "remove_hyperlink" \in called

ExampleText == FragPlainA \o FragAnchor \o FragPlainB

ExampleRuns == <<PlainRun(<<"A", " ">>), HyperlinkRun(<<"L">>, <<"u">>),
                 PlainRun(<<" ", "B">>)>>

IsHyperlink(r) == r.kind = "hyperlink"

\* the runs joined, each hyperlink run replaced by the source text of its anchor
RECURSIVE RunSources(_, _, _, _)
RunSources(t, rs, ms, k) ==
    IF rs = <<>> THEN <<>>
    ELSE IF IsHyperlink(Head(rs))
         THEN Slice(t, ms[k].start, ms[k].end) \o RunSources(t, Tail(rs), ms, k + 1)
         ELSE Head(rs).text \o RunSources(t, Tail(rs), ms, k)

\* C5: process_text_with_hyperlinks adds one hyperlink run (label, url) per
\* matched anchor, in order, and plain runs holding the text between, before
\* and after them: the runs joined, each hyperlink run replaced by the source
\* of its anchor, are the input text.  "A <a href='u'>L</a> B" gives
\* [plain("A "), hyperlink("L", "u"), plain(" B")].
C5_RunsReproduceText ==
    Processed =>
        LET ms == HrefFindIter(text, 0)
            hl == SelectSeq(runs, IsHyperlink)
        IN  /\ Len(hl) = Len(ms)
            /\ \A k \in 1..Len(ms) : hl[k] = HyperlinkRun(ms[k].label, ms[k].url)
            /\ RunSources(text, runs, ms, 1) = text
            /\ (text = ExampleText => runs = ExampleRuns)

C5_Witness == text = ExampleText /\ Processed

\* no part of t is matched by either pattern
NoAnchor(t) == HrefFindIter(t, 0) = <<>> /\ TagFindIter(t, 0) = <<>>

\* C6 as stated: for every text without anchor, the empty one included,
\* process_text_with_hyperlinks adds exactly one plain run holding the text
\* and remove_hyperlink returns the text.
C6_OneRunAlways ==
    NoAnchor(text) =>
        /\ (Processed => runs = <<PlainRun(text)>>)
        /\ (Removed => stripped = text)

\* C6 amended: for every non-empty text matched by neither pattern,
\* process_text_with_hyperlinks adds exactly one plain run holding the text
\* and no hyperlink run; for the empty text it adds no run; remove_hyperlink
\* returns either unchanged.
C6_OneRunUnlessEmpty ==
    NoAnchor(text) =>
        /\ (Processed =>
                runs = IF text = <<>> THEN <<>> ELSE <<PlainRun(text)>>)
        /\ (Removed => stripped = text)

C6_Witness ==
    /\ NoAnchor(text)
    /\ text = FragPlainA \o FragOpenTag \o FragPlainB
    /\ Processed
    /\ Removed
    /\ runs = <<PlainRun(text)>>
    /\ stripped = text

Spans(ms) == [k \in 1..Len(ms) |-> <<ms[k].start, ms[k].end>>]

\* C7: remove_hyperlink recognises the anchor spans process_text_with_hyperlinks
\* recognises, and returns the texts of its runs joined (the label for a
\* hyperlink run), also for a tag without href.
C7_SameTraversal ==
    (Processed /\ Removed) =>
        /\ Spans(TagFindIter(text, 0)) = Spans(HrefFindIter(text, 0))
        /\ stripped = Flatten([k \in 1..Len(runs) |-> runs[k].text])

\* "<a" and a whitespace at offset i of t: the start of an opening tag
OpenAt(t, i) ==
    /\ HasAt(t, i, LitOpen)
    /\ i + 2 < Len(t)
    /\ At(t, i + 2) \in Whitespace

\* the opening tags of t from offset i on that have no "</a>" of their own,
\* each "</a>" closing the nearest opening tag before it that is still open;
\* open holds the offsets of the opening tags still open, oldest first
RECURSIVE UnclosedFrom(_, _, _)
UnclosedFrom(t, i, open) ==
    LET marks == {j \in i..Len(t) : OpenAt(t, j) \/ HasAt(t, j, LitClose)}
    IN  IF marks = {} THEN {open[k] : k \in 1..Len(open)}
        ELSE LET j == Min(marks)
             IN  IF OpenAt(t, j) THEN UnclosedFrom(t, j + 1, Append(open, j))
                 ELSE IF open = <<>> THEN UnclosedFrom(t, j + 1, open)
                 ELSE UnclosedFrom(t, j + 1, SubSeq(open, 1, Len(open) - 1))

\* the offsets of the "<a href=" opening tags of t with no "</a>" of their own
UnclosedHrefOpens(t) ==
    {i \in UnclosedFrom(t, 0, <<>>) : HasAt(t, i, LitOpen \o <<" ">> \o LitHref)}

\* the text of the opening tag at offset i: up to its ">", or up to the next
\* "<" or the end of the text when it has none
OpeningText(t, i) ==
    LET stops == {j \in (i + 1)..(Len(t) - 1) : At(t, j) \in {"<", ">"}}
    IN  IF stops = {} THEN Slice(t, i, Len(t))
        ELSE IF At(t, Min(stops)) = ">" THEN Slice(t, i, Min(stops) + 1)
        ELSE Slice(t, i, Min(stops))

Contains(t, part) == \E j \in 0..Len(t) : HasAt(t, j, part)

\* the matches ms lie left to right without overlap, no label holds a "</a>",
\* and no opening tag without a "</a>" of its own lies inside a match
MatchesKeepUnclosed(t, ms) ==
    /\ \A k \in 1..Len(ms) : ms[k].start < ms[k].end
    /\ \A k \in 1..(Len(ms) - 1) : ms[k].end <= ms[k + 1].start
    /\ \A k \in 1..Len(ms) : ~Contains(ms[k].label, LitClose)
    /\ \A i \in UnclosedHrefOpens(t) :
            \A k \in 1..Len(ms) : ~(ms[k].start <= i /\ i < ms[k].end)

\* C12: the anchors both functions match lie left to right without overlap,
\* each label ending at the first "</a>", and an opening <a href=...> tag
\* with no "</a>" of its own is in no anchor's span or label: it stands as it
\* is in a plain run, and in the stripped text, also when a well-formed
\* anchor follows it.
C12_UnclosedTagsLiteral ==
    /\ Processed =>
            /\ MatchesKeepUnclosed(text, HrefFindIter(text, 0))
            /\ \A i \in UnclosedHrefOpens(text) :
                    \E k \in 1..Len(runs) :
                        /\ ~IsHyperlink(runs[k])
                        /\ Contains(runs[k].text, OpeningText(text, i))
    /\ Removed =>
            /\ MatchesKeepUnclosed(text, TagFindIter(text, 0))
            /\ \A i \in UnclosedHrefOpens(text) :
                    Contains(stripped, OpeningText(text, i))

-----------------------------------------------------------------------------
(* Claims about generate_resume, under SpecResume *)

Perms(n) == {f \in [1..n -> 1..n] : \A i, j \in 1..n : i # j => f[i] # f[j]}

\* f lists the places of xs by descending id, equal ids in input order
IsDescStable(xs, f) ==
    \A k, l \in 1..Len(xs) :
        k < l => \/ xs[f[k]].id > xs[f[l]].id
                 \/ xs[f[k]].id = xs[f[l]].id /\ f[k] < f[l]

RenderOrder(xs) ==
    LET f == CHOOSE g \in Perms(Len(xs)) : IsDescStable(xs, g)
    IN  [k \in 1..Len(xs) |-> xs[f[k]]]

HeadingTexts(nodes, level) ==
    LET hs == SelectSeq(nodes, LAMBDA n : n.kind = "heading" /\ n.level = level)
    IN  [k \in 1..Len(hs) |-> hs[k].text]

Ids(xs) == [k \in 1..Len(xs) |-> xs[k].id]

WithPosition(e) == e.position # <<>>

\* the level-2 heading texts of a section whose entries are rendered in RenderOrder
EntryHeadingTexts(section) ==
    LET es == SelectSeq(RenderOrder(section.content), WithPosition)
    IN  [j \in 1..Len(es) |-> EntryHeading(es[j])]

\* C4: sections and the entries of each section are rendered by descending id,
\* equal ids in input order, and the rendered sequence is a permutation of the
\* input; section ids [3,1,2] render as [3,2,1].
C4_DescendingStableOrder ==
    \A c \in 1..Len(calls) :
        calls[c].raised = "" =>
            LET secs == calls[c].data.contents
            IN  /\ \E f \in Perms(Len(secs)) :
                    /\ IsDescStable(secs, f)
                    /\ HeadingTexts(calls[c].added, 1)
                         = [k \in 1..Len(secs) |-> secs[f[k]].title]
                    /\ HeadingTexts(calls[c].added, 2)
                         = Flatten([k \in 1..Len(secs) |-> EntryHeadingTexts(secs[f[k]])])
                /\ (Ids(secs) = <<3, 1, 2>> =>
                        HeadingTexts(calls[c].added, 1)
                            = << <<"S", "1">>, <<"S", "3">>, <<"S", "2">> >>)

\* entries of ids [2,3,2]: the entry of id 3 first, then the two of id 2 as given
C4_Witness ==
    /\ payload = EntriesPayload(<<2, 3, 2>>)
    /\ calls # <<>>
    /\ calls[1].raised = ""
    /\ HeadingTexts(calls[1].added, 2)
         = << <<"P", "2", " ", "-", " ", "(", "D", ")">>, <<"P", "1">>, <<"P", "3">> >>

WellFormed(d) ==
    /\ HasKey(d.header, "name") /\ HasKey(d.header, "title")
    /\ \A s \in 1..Len(d.contents) :
        \A e \in 1..Len(d.contents[s].content) : HasKey(d.contents[s].content[e], "items")

\* the nodes of one entry: its level-2 heading when it has a position, then a
\* bullet per item, as given
ExpectedEntry(e) ==
    (IF e.position = <<>> THEN <<>>
     ELSE IF e.date = <<>> THEN <<Heading(2, remove_hyperlink(e.position))>>
     ELSE <<Heading(2, remove_hyperlink(e.position) \o <<" ", "-", " ", "(">>
                        \o e.date \o <<")">>)>>)
        \o [i \in 1..Len(e.items) |-> Bullet(process_text_with_hyperlinks(e.items[i]))]

ExpectedSection(s) ==
    LET es == RenderOrder(s.content)
    IN  <<Heading(1, s.title)>> \o Flatten([j \in 1..Len(es) |-> ExpectedEntry(es[j])])

ExpectedNodes(d) ==
    LET ss == RenderOrder(d.contents)
    IN  <<Heading(0, d.header.name), Heading(3, d.header.title)>>
            \o Flatten([k \in 1..Len(ss) |-> ExpectedSection(ss[k])])

\* C9: for valid data generate_resume adds exactly Heading(0, name),
\* Heading(3, title), then per section in render order Heading(1, title) and
\* per entry in render order its level-2 heading (stripped position, with
\* " - (date)" for a date, none for an empty position) followed by one List
\* Bullet paragraph per item in the given order.
C9_ExactNodeSequence ==
    \A c \in 1..Len(calls) :
        WellFormed(calls[c].data) =>
            /\ calls[c].raised = ""
            /\ calls[c].added = ExpectedNodes(calls[c].data)

C9_Witness ==
    /\ payload = EntryPayload(FragPlainA \o FragAnchor, <<"2", "1">>,
                              <<FragPlainA \o FragAnchor \o FragPlainB, <<"i">> >>)
    /\ calls # <<>>
    /\ calls[1].data = payload
    /\ calls[1].added =
         <<Heading(0, <<"N">>), Heading(3, <<"T">>), Heading(1, <<"S", "1">>),
           Heading(2, <<"A", " ", "L", " ", "-", " ", "(", "2", "1", ")">>),
           Bullet(ExampleRuns), Bullet(<<PlainRun(<<"i">>)>>)>>

RECURSIVE Sum(_)
Sum(ns) == IF ns = <<>> THEN 0 ELSE Head(ns) + Sum(Tail(ns))

\* the number of heading and bullet nodes of a whole payload
NodeCount(d) ==
    2 + Sum([s \in 1..Len(d.contents) |->
            1 + Sum([e \in 1..Len(d.contents[s].content) |->
                    LET x == d.contents[s].content[e]
                    IN  (IF x.position # <<>> THEN 1 ELSE 0) + Len(x.items)])])

IsSuffix(s, t) == Len(s) <= Len(t) /\ SubSeq(t, Len(t) - Len(s) + 1, Len(t)) = s

\* C3: generate_resume calls doc.save at most once and only after every node
\* of the payload has been added; with header.name or header.title missing,
\* or any other failure while nodes are built, it logs an error, re-raises and
\* never calls doc.save.
C3_AllOrNothing ==
    \A c \in 1..Len(calls) :
        LET call == calls[c]
        IN  /\ Len(call.saved) <= 1
            /\ (~HasKey(call.data.header, "name") \/ ~HasKey(call.data.header, "title"))
                    => call.raised # ""
            /\ call.raised # "" =>
                    /\ call.saved = <<>>
                    /\ Len(call.log) = 1 /\ call.log[1].level = "ERROR"
            /\ call.saved # <<>> =>
                    /\ call.raised = ""
                    /\ Len(call.added) = NodeCount(call.data)
                    /\ IsSuffix(call.added, call.saved[1])

\* header.title missing: the name heading is added, nothing is saved
C3_Witness ==
    /\ calls # <<>>
    /\ calls[1].data = WithoutTitle(payload)
    /\ calls[1].raised = "title"
    /\ calls[1].added = <<Heading(0, <<"N">>)>>
    /\ calls[1].saved = <<>>

\* C2: the same data rendered twice saves the same node sequence both times,
\* also on one ResumeGen instance and after a call that failed part-way: every
\* save holds the nodes of that call's data alone.
C2_RenderIdempotent ==
    \A i, j \in 1..Len(calls) :
        (calls[i].saved # <<>> /\ calls[j].saved # <<>>
            /\ calls[i].data = calls[j].data)
                => /\ calls[i].saved = calls[j].saved
                   /\ calls[i].saved[1] = calls[i].added

-----------------------------------------------------------------------------
(* Claims about the cover letter, under SpecCover *)

\* the places of the lines that are not blank after trimming
NonBlank(lines) ==
    SelectSeq([k \in 1..Len(lines) |-> k], LAMBDA k : Strip(lines[k]) # <<>>)

SubstitutedLines == Split(Substitute(template, DataOf(header)))

\* C1: a non-blank line equal to data.name is classified signatureName exactly
\* when the line right before it, at its own place in the split text, trims
\* to "Sincerely,"; the template "Dear Hiring Manager," / blank / "$name" /
\* blank / "Sincerely," / "$name" with name "Ann" gives salutation,
\* body("Ann") with 12pt before and after, closing, signatureName("Ann").
C1_SignatureByAdjacency ==
    (cover.ran /\ cover.created /\ cover.raised = "") =>
        LET lines == SubstitutedLines
            nb == NonBlank(lines)
            name == DataOf(header).name
        IN  /\ \A k \in 1..Len(cover.paragraphs) :
                cover.paragraphs[k].text = name =>
                    (cover.paragraphs[k].role = "signatureName"
                        <=> (nb[k] > 1 /\ Strip(lines[nb[k] - 1]) = Sincerely))
            /\ (template = ExampleTemplate =>
                    cover.paragraphs =
                        <<Para(DearHiringManager, "salutation", 0, 0),
                          Para(name, "body", 12, 12),
                          Para(Sincerely, "closing", 12, 0),
                          Para(name, "signatureName", 0, 0)>>)

\* C10: with all required keys present create_cover_letter never raises and
\* adds exactly one paragraph per line that is non-blank after trimming, in
\* line order, holding the trimmed line, also when a line equal to data.name
\* carries whitespace or is the first line.
C10_OneParagraphPerLine ==
    (cover.ran /\ cover.created) =>
        LET lines == SubstitutedLines
            nb == NonBlank(lines)
        IN  /\ cover.raised = ""
            /\ cover.exit = 0
            /\ [k \in 1..Len(cover.paragraphs) |-> cover.paragraphs[k].text]
                 = [k \in 1..Len(nb) |-> Strip(lines[nb[k]])]

ValidationOrder == <<"name", "phone", "email", "address">>

AbsentOrEmpty(f) == f \notin DOMAIN header \/ header[f] = <<>>

\* C8: when one of name, phone, email, address is absent from or empty in the
\* JSON header, main fails with a validation error naming the first such
\* field in that order, before create_cover_letter is entered: no document is
\* created, nothing is saved, and the exit status is non-zero.
C8_ValidationBeforeRender ==
    cover.ran =>
        \A k \in 1..Len(ValidationOrder) :
            (/\ AbsentOrEmpty(ValidationOrder[k])
             /\ \A j \in 1..(k - 1) : ~AbsentOrEmpty(ValidationOrder[j]))
                => /\ cover.exit # 0
                   /\ ~cover.created
                   /\ cover.paragraphs = <<>>
                   /\ cover.saved = <<>>
                   /\ Len(cover.log) = 1
                   /\ cover.log[1].level = "CRITICAL"
                   /\ cover.log[1].arg = ValidationOrder[k]

\* phone absent and address empty: the error names phone
C8_Witness ==
    /\ cover.ran
    /\ header = [name |-> <<"A", "n", "n">>, email |-> <<"a", "@", "x">>, address |-> <<>>]
    /\ cover.log[1].arg = "phone"
    /\ ~cover.created
    /\ cover.exit = 1

\* the keys of data whose placeholder stands at offset i of t
KeysAt(t, i, data) ==
    {k \in 1..Len(DataKeys) : HasAt(t, i, <<"$">> \o KeyChars(DataKeys[k]))}

\* the raw template from offset i on with every "$key" replaced by data[key],
\* the values put in as they are
RECURSIVE ReplacedAtOnceFrom(_, _, _)
ReplacedAtOnceFrom(t, i, data) ==
    LET hits == {j \in i..Len(t) : KeysAt(t, j, data) # {}}
    IN  IF hits = {} THEN Slice(t, i, Len(t))
        ELSE LET j   == Min(hits)
                 key == DataKeys[Min(KeysAt(t, j, data))]
             IN  Slice(t, i, j) \o data[key]
                    \o ReplacedAtOnceFrom(t, j + 1 + Len(KeyChars(key)), data)

ReplacedAtOnce(t, data) == ReplacedAtOnceFrom(t, 0, data)

\* the lines of ls that are not blank after trimming, trimmed
TrimmedLines(ls) ==
    LET nb == NonBlank(ls)
    IN  [k \in 1..Len(nb) |-> Strip(ls[nb[k]])]

\* C11: the text create_cover_letter splits into lines is the raw template
\* with every "$key", key in data, replaced by data[key]: a "$token" that is
\* no key stays and raises nothing, and a value is put in as it is, also a
\* name "$company", so that the order of the keys does not matter.
C11_ValuesVerbatim ==
    (cover.ran /\ cover.created) =>
        /\ Substitute(template, DataOf(header)) = ReplacedAtOnce(template, DataOf(header))
        /\ (cover.raised = "" =>
                [k \in 1..Len(cover.paragraphs) |-> cover.paragraphs[k].text]
                    = TrimmedLines(Split(ReplacedAtOnce(template, DataOf(header)))))

=============================================================================
